---- MODULE Spec2Model ----
(***************************************************************************)
(* A model of the JNI boundary layer of whisperCpp                         *)
(* (nativelib/src/main/jni/whisper/WhisperLib.c): the three model loaders, *)
(* the loader callbacks handed to the engine, release, transcribe and the  *)
(* segment accessors.                                                      *)
(*                                                                         *)
(* The host calls one entry point at a time; an entry point runs on the    *)
(* calling thread until it returns.  The engine (whisper.h) and the host   *)
(* runtime (jni.h, asset_manager.h) are external: their outcomes are       *)
(* nondeterministic inputs of the actions.                                 *)
(***************************************************************************)
EXTENDS Integers, Sequences, FiniteSets, TLC

(***************************************************************************)
(* Bounds of the model.                                                    *)
(***************************************************************************)
\* largest number of bytes the caller's stream (or the asset) holds
MaxN == 3
\* largest number of bytes the engine needs from a loader
MaxNeed == 4
\* capacity of the transfer buffer; 64 * 1024 in the source
\* (WhisperLib.c:122), scaled down so that requests above the capacity occur
BufCap == 2
\* number of engine handles the engine can have live at once
MaxHandles == 2
\* number of host threads
NThreads == 2
\* largest segment count the engine reports
MaxSeg == 1
\* largest thread count the host asks for
MaxThreads == 2
\* largest number of bytes in a segment's text
MaxText == 2
\* largest timestamp the engine reports
MaxT == 2

(***************************************************************************)
(* Values.                                                                 *)
(***************************************************************************)
\* the null pointer / null reference / zero handle
NULL == 0
\* the JavaVM pointer GetJavaVM stores
JVM == 1
\* the caller's InputStream object (a local reference) and its class member
STREAM_OBJ == 1
\* the global reference NewGlobalRef makes of the stream
STREAM_REF == 1
\* the jmethodID of read([BII)I
MID_READ == 1
\* the global reference NewGlobalRef makes of the byte[] buffer
BUF_REF == 1
\* the host's AssetManager object, the float[] of samples
MGR_OBJ == 1
AUDIO_OBJ == 1
\* the AAsset* AAssetManager_open returns
ASSET == 1

Threads == 1..NThreads
\* a thread of the engine, which the runtime does not know until it attaches
Workers == {NThreads + 1}
Handles == 1..MaxHandles

\* A jstring or a char* is null (<<>>) or holds a string (<<s>>).
NullStr == <<>>
Str(s) == <<s>>
HostStrings == {NullStr, Str(""), Str("auto"), Str("en")}

Min(a, b) == IF a < b THEN a ELSE b

\* byte i of the stream; 0 is the byte NewByteArray fills the buffer with
Data(n) == [i \in 1..n |-> i]
ZeroBuf(len) == [i \in 1..len |-> 0]

VARIABLES
    pc,          \* where the current call is: "idle" between calls
    call,        \* the entry point called last and its arguments
    ret,         \* what it returned (0 for a void return)
    thr,         \* the host thread of the call
    attached,    \* the threads attached to the runtime
    exc,         \* a host exception is pending on the calling thread
    engineCalls, \* engine entry points invoked during the call, in order
    is,          \* struct input_stream_context of the call
    heap,        \* the struct: "none" (not allocated), "live", "freed"
    freeCount,   \* free() calls on the struct
    refNew,      \* NewGlobalRef successes, per reference
    refDel,      \* DeleteGlobalRef calls, per reference
    faults,      \* undefined behaviour executed during the call
    data,        \* the bytes of the caller's stream
    pos,         \* bytes the stream has delivered
    streamEnd,   \* the stream has reported end of data (read returned <= 0)
    jbuf,        \* contents of the byte[] transfer buffer
    received,    \* bytes the engine got from read(), concatenated
    need,        \* bytes the engine needs
    closeCalls,  \* loader close() calls the engine made during the call
    live,        \* engine handles created and not destroyed
    segs,        \* the engine's segment count, per handle
    loader,      \* the loader the engine is driving: "none", "is", "asset"
    assetOpen,   \* AAssetManager_open successes during the call
    assetClosed, \* AAsset_close calls during the call
    jni,         \* host resources acquired and released during the call
    retStr,      \* the jstring the call returned, for the calls that return one
    engineRet,   \* what the engine's last call returned to this layer
    cb,          \* the last loader callback: its thread and its JNIEnv resolution
    rd           \* the last read() of the stream loader

vars == <<pc, call, ret, thr, attached, exc, engineCalls, is, heap, freeCount,
          refNew, refDel, faults, data, pos, streamEnd, jbuf, received, need,
          closeCalls, live, segs, loader, assetOpen, assetClosed, jni,
          retStr, engineRet, cb, rd>>

(***************************************************************************)
(* struct input_stream_context, as calloc leaves it.                       *)
(***************************************************************************)
input_stream_context ==
    [jvm |-> NULL, input_stream |-> NULL, mid_read |-> NULL,
     buffer_gl |-> NULL, buf_len |-> 0, eof |-> 0]

\* What reading the fields of a freed struct can yield: the allocator may have
\* kept the last values or reused the memory.
FreedViews ==
    [jvm : {NULL, JVM}, input_stream : {NULL, STREAM_REF}, mid_read : {MID_READ},
     buffer_gl : {NULL, BUF_REF}, buf_len : {BufCap}, eof : {0}]

\* The resources of a call, as one value the helper functions transform.
Res == [is |-> is, heap |-> heap, freeCount |-> freeCount, refNew |-> refNew,
        refDel |-> refDel, faults |-> faults, attached |-> attached]

NoRes(att) ==
    [is |-> input_stream_context, heap |-> "none", freeCount |-> 0,
     refNew |-> [stream |-> 0, buffer |-> 0],
     refDel |-> [stream |-> 0, buffer |-> 0],
     faults |-> {}, attached |-> att]

SetRes(R) ==
    /\ is' = R.is
    /\ heap' = R.heap
    /\ freeCount' = R.freeCount
    /\ refNew' = R.refNew
    /\ refDel' = R.refDel
    /\ faults' = R.faults
    /\ attached' = R.attached

(***************************************************************************)
(* get_env_from_jvm: GetEnv yields the calling thread's JNIEnv when the    *)
(* thread is attached; otherwise AttachCurrentThread is tried (attachOK is *)
(* its outcome).  The JNIEnv of thread t is the value t.                   *)
(***************************************************************************)
\* a variant that keeps the JNIEnv of the first thread and hands it to all
get_env_from_jvm_cached(jvm, t, att, attachOK) ==
    IF jvm = NULL THEN [env |-> NULL, att |-> att, getEnv |-> 0, attach |-> 0]
    ELSE [env |-> 1, att |-> att, getEnv |-> 1, attach |-> 0]

\* a variant that attaches without asking for the thread's JNIEnv first
get_env_from_jvm_attach(jvm, t, att, attachOK) ==
    IF jvm = NULL THEN [env |-> NULL, att |-> att, getEnv |-> 0, attach |-> 0]
    ELSE IF attachOK THEN [env |-> t, att |-> att \cup {t}, getEnv |-> 0, attach |-> 1]
    ELSE [env |-> NULL, att |-> att, getEnv |-> 0, attach |-> 1]

\* get_env_from_jvm was not called
NotResolved(att) == [env |-> NULL, att |-> att, getEnv |-> 0, attach |-> 0]

get_env_from_jvm(jvm, t, att, attachOK) ==
    IF jvm = NULL THEN [env |-> NULL, att |-> att, getEnv |-> 0, attach |-> 0]
    ELSE IF t \in att THEN [env |-> t, att |-> att, getEnv |-> 1, attach |-> 0]
    ELSE IF attachOK THEN [env |-> t, att |-> att \cup {t}, getEnv |-> 1, attach |-> 1]
    ELSE [env |-> NULL, att |-> att, getEnv |-> 1, attach |-> 1]

\* a variant of is_close that frees the struct without releasing the stream
is_close_keep_stream(ctx, R, t, attachOK, view) ==
    IF ctx = NULL THEN R
    ELSE
      LET s    == IF R.heap = "live" THEN R.is ELSE view
          e    == get_env_from_jvm(s.jvm, t, R.attached, attachOK)
          delB == e.env # NULL /\ s.buffer_gl # NULL
      IN [R EXCEPT !.is.buffer_gl = IF delB THEN NULL ELSE @,
                   !.heap = "freed",
                   !.freeCount = @ + 1,
                   !.refDel.buffer = @ + (IF delB THEN 1 ELSE 0),
                   !.attached = e.att]

(***************************************************************************)
(* is_close(ctx): releases the two global references when a JNIEnv is to   *)
(* be had, then frees the struct.  ctx is NULL or the one context of the   *)
(* call; view is what the fields read as if the struct was freed before.   *)
(***************************************************************************)
is_close(ctx, R, t, attachOK, view) ==
    IF ctx = NULL THEN R
    ELSE
      LET s    == IF R.heap = "live" THEN R.is ELSE view
          e    == get_env_from_jvm(s.jvm, t, R.attached, attachOK)
          delS == e.env # NULL /\ s.input_stream # NULL
          delB == e.env # NULL /\ s.buffer_gl # NULL
      IN [is |-> IF R.heap = "live"
                 THEN [s EXCEPT !.input_stream = IF delS THEN NULL ELSE @,
                                !.buffer_gl = IF delB THEN NULL ELSE @]
                 ELSE R.is,
          heap |-> "freed",
          freeCount |-> R.freeCount + 1,
          refNew |-> R.refNew,
          refDel |-> [stream |-> R.refDel.stream + (IF delS THEN 1 ELSE 0),
                      buffer |-> R.refDel.buffer + (IF delB THEN 1 ELSE 0)],
          faults |-> R.faults \cup
                     (IF R.heap = "live" THEN {}
                      ELSE {"use_after_free", "double_free"}),
          attached |-> e.att]

\* JNIEnv* env = get_env_from_jvm(is->jvm) in is_close: what it gave
is_close_env(ctx, R, t, attachOK, view) ==
    IF ctx = NULL THEN NotResolved(R.attached)
    ELSE get_env_from_jvm((IF R.heap = "live" THEN R.is ELSE view).jvm,
                          t, R.attached, attachOK)

\* is_eof(ctx)
is_eof(ctx, R) == IF ctx = NULL THEN TRUE ELSE R.is.eof # 0

(***************************************************************************)
(* The caller's InputStream.read(buffer, 0, chunk), reached through        *)
(* CallIntMethod: it throws, or reports end of data (-1; 0 for a request   *)
(* of 0 bytes), or stores the next k bytes, 1 <= k <= chunk, at the start  *)
(* of the buffer and reports k.                                            *)
(***************************************************************************)
StreamResponses(d, p, buf, chunk) ==
    {[threw |-> TRUE, n |-> 0, buf |-> buf, adv |-> 0]}
    \cup (IF p = Len(d) \/ chunk = 0
          THEN {[threw |-> FALSE, n |-> IF chunk = 0 THEN 0 ELSE -1,
                 buf |-> buf, adv |-> 0]}
          ELSE {[threw |-> FALSE, n |-> k,
                 buf |-> [i \in 1..Len(buf) |-> IF i <= k THEN d[p + i] ELSE buf[i]],
                 adv |-> k] : k \in 1..Min(chunk, Len(d) - p)})

\* jint chunk = read_size > buf_len ? buf_len : read_size
Chunk(s, read_size) == IF read_size > s.buf_len THEN s.buf_len ELSE read_size

\* the n bytes memcpy takes from the pinned buffer; past the end of the
\* buffer it takes whatever lies there (0 here)
CopyOut(buf, n) == [i \in 1..n |-> IF i <= Len(buf) THEN buf[i] ELSE 0]

\* a variant of is_read that copies the length it asked for, not the length
\* the stream reported
is_read_copy_chunk(ctx, R, read_size, t, attachOK, resp, pinOK) ==
    LET s == R.is
        e == get_env_from_jvm(s.jvm, t, R.attached, attachOK)
    IN IF resp.threw \/ resp.n <= 0 \/ ~pinOK
       THEN [n |-> 0, out |-> <<>>, eof |-> 1, called |-> TRUE,
             cleared |-> resp.threw, att |-> e.att, resolved |-> e]
       ELSE [n |-> Chunk(s, read_size),
             out |-> SubSeq(resp.buf, 1, Chunk(s, read_size)), eof |-> s.eof,
             called |-> TRUE, cleared |-> FALSE, att |-> e.att, resolved |-> e]

\* a variant of is_read that takes delivered bytes as the end of end-of-data
is_read_reset_eof(ctx, R, read_size, t, attachOK, resp, pinOK) ==
    LET s == R.is
        e == get_env_from_jvm(s.jvm, t, R.attached, attachOK)
    IN IF resp.threw \/ resp.n <= 0 \/ ~pinOK
       THEN [n |-> 0, out |-> <<>>, eof |-> 1, called |-> TRUE,
             cleared |-> resp.threw, att |-> e.att, resolved |-> e]
       ELSE [n |-> resp.n, out |-> CopyOut(resp.buf, resp.n), eof |-> 0,
             called |-> TRUE, cleared |-> FALSE, att |-> e.att, resolved |-> e]

(***************************************************************************)
(* is_read(ctx, output, read_size).  resp is what the stream answers to    *)
(* the CallIntMethod, pinOK whether GetByteArrayElements yields a pointer. *)
(* Yields the return value n, the bytes copied to output, the new eof      *)
(* flag, whether the stream was called, whether ExceptionClear ran and     *)
(* what get_env_from_jvm gave.                                             *)
(***************************************************************************)
is_read(ctx, R, read_size, t, attachOK, resp, pinOK) ==
    LET s == R.is
        e == get_env_from_jvm(s.jvm, t, R.attached, attachOK)
        none == [n |-> 0, out |-> <<>>, eof |-> s.eof, called |-> FALSE,
                 cleared |-> FALSE, att |-> R.attached,
                 resolved |-> NotResolved(R.attached)]
    IN IF ctx = NULL \/ s.jvm = NULL \/ s.input_stream = NULL \/ s.buffer_gl = NULL
       THEN none
       ELSE IF e.env = NULL
       THEN [none EXCEPT !.att = e.att, !.resolved = e]
       ELSE IF resp.threw
       THEN [n |-> 0, out |-> <<>>, eof |-> 1, called |-> TRUE,
             cleared |-> TRUE, att |-> e.att, resolved |-> e]
       ELSE IF resp.n <= 0
       THEN [n |-> 0, out |-> <<>>, eof |-> 1, called |-> TRUE,
             cleared |-> FALSE, att |-> e.att, resolved |-> e]
       ELSE IF ~pinOK
       THEN [n |-> 0, out |-> <<>>, eof |-> 1, called |-> TRUE,
             cleared |-> FALSE, att |-> e.att, resolved |-> e]
       ELSE [n |-> resp.n, out |-> CopyOut(resp.buf, resp.n), eof |-> s.eof,
             called |-> TRUE, cleared |-> FALSE, att |-> e.att, resolved |-> e]

\* what the engine returned: a number (a status, a count, a timestamp) or a
\* char* (NULL or the bytes of a string)
NoEngineRet == [val |-> 0, text |-> NullStr]

\* no callback has run
NoCb ==
    [op |-> "none", t |-> 0, jvm |-> NULL, wasAtt |-> FALSE, attachOK |-> TRUE,
     env |-> NULL, getEnv |-> 0, attach |-> 0, used |-> FALSE]

\* a callback op on thread t, holding the struct's jvm, got e from
\* get_env_from_jvm and made runtime calls with it (used) or none
Cb(op, t, jvm, att, attachOK, e, used) ==
    [op |-> op, t |-> t, jvm |-> jvm, wasAtt |-> t \in att, attachOK |-> attachOK,
     env |-> e.env, getEnv |-> e.getEnv, attach |-> e.attach, used |-> used]

\* no read() has run
NoRd ==
    [req |-> 0, chunk |-> 0, reported |-> 0, n |-> 0, copied |-> 0,
     threw |-> FALSE, cleared |-> FALSE, called |-> FALSE]

(***************************************************************************)
(* Java_com_negi_nativelib_WhisperLib_initContextFromInputStream, up to    *)
(* the call of the engine.  fail names the step that fails.                *)
(***************************************************************************)
SetupSteps == {"none", "calloc", "GetJavaVM", "NewGlobalRef", "GetMethodID",
               "NewByteArray", "NewGlobalRef_buffer"}

initContextFromInputStream_setup(input_stream, fail, t, att) ==
    LET R0 == NoRes(att)
        \* calloc(1, sizeof(*inp))
        R1 == [R0 EXCEPT !.heap = "live"]
        \* free(inp)
        Free(R) == [R EXCEPT !.heap = "freed", !.freeCount = @ + 1]
        \* GetJavaVM(env, &inp->jvm)
        R2 == [R1 EXCEPT !.is.jvm = JVM]
        \* inp->input_stream = NewGlobalRef(env, input_stream)
        R3 == [R2 EXCEPT !.is.input_stream = STREAM_REF, !.refNew.stream = @ + 1]
        \* inp->mid_read = GetMethodID(...)
        R4 == [R3 EXCEPT !.is.mid_read = MID_READ]
        \* inp->buf_len = 64 * 1024
        R5 == [R4 EXCEPT !.is.buf_len = BufCap]
        \* inp->buffer_gl = NewGlobalRef(env, buffer_local)
        R6 == [R5 EXCEPT !.is.buffer_gl = BUF_REF, !.refNew.buffer = @ + 1]
        out(R, ok, e) == [R |-> R, ok |-> ok, exc |-> e, cb |-> NoCb]
        \* is_close(inp), on the calling thread
        closed(R, e) ==
            [R |-> is_close(1, R, t, TRUE, R.is), ok |-> FALSE, exc |-> e,
             cb |-> Cb("close", t, R.is.jvm, R.attached, TRUE,
                       is_close_env(1, R, t, TRUE, R.is),
                       is_close(1, R, t, TRUE, R.is).refDel # R.refDel)]
    IN IF input_stream = NULL THEN out(R0, FALSE, FALSE)
       ELSE IF fail = "calloc" THEN out(R0, FALSE, FALSE)
       ELSE IF fail = "GetJavaVM" THEN out(Free(R1), FALSE, FALSE)
       ELSE IF fail = "NewGlobalRef" THEN out(Free(R2), FALSE, FALSE)
       \* a failed GetMethodID leaves NoSuchMethodError pending
       ELSE IF fail = "GetMethodID" THEN closed(R3, TRUE)
       \* a failed NewByteArray leaves OutOfMemoryError pending
       ELSE IF fail = "NewByteArray" THEN closed(R5, TRUE)
       ELSE IF fail = "NewGlobalRef_buffer" THEN closed(R5, FALSE)
       ELSE out(R6, TRUE, FALSE)

NoCall ==
    [name |-> "none", stream |-> NULL, mgr |-> NULL, str |-> NullStr,
     h |-> NULL, nthreads |-> 0, translate |-> FALSE, audio |-> NULL,
     index |-> 0]

\* struct whisper_full_params, the fields this layer sets
NoParams ==
    [n_threads |-> 0, translate |-> FALSE, no_context |-> FALSE,
     print_realtime |-> FALSE, print_progress |-> FALSE,
     print_timestamps |-> FALSE, print_special |-> FALSE,
     language |-> NullStr, detect_language |-> FALSE]

\* one call of an engine entry point: its name, handle, string and parameters
ECall(fn, h, s, p) == [fn |-> fn, h |-> h, s |-> s, p |-> p]

\* GetStringUTFChars / ReleaseStringUTFChars, Get / ReleaseFloatArrayElements
NoJni == [utfGet |-> 0, utfRel |-> 0, arrGet |-> 0, arrRel |-> 0, arrAbort |-> 0]

NoStream ==
    /\ data' = <<>>
    /\ pos' = 0
    /\ streamEnd' = FALSE
    /\ jbuf' = <<>>
    /\ received' = <<>>
    /\ need' = 0

NoAsset ==
    /\ assetOpen' = 0
    /\ assetClosed' = 0

\* the engine starts loading from a source of at most MaxN bytes
StartLoad(kind) ==
    /\ loader' = kind
    /\ \E n \in 0..MaxN : data' = Data(n)
    /\ pos' = 0
    /\ streamEnd' = FALSE
    /\ jbuf' = IF kind = "is" THEN ZeroBuf(BufCap) ELSE <<>>
    /\ received' = <<>>
    /\ need' \in 1..MaxNeed

Java_com_negi_nativelib_WhisperLib_initContextFromInputStream ==
    /\ UNCHANGED <<retStr, engineRet, rd>>
    /\ pc = "idle"
    /\ \E t \in Threads, input_stream \in {NULL, STREAM_OBJ}, fail \in SetupSteps :
         LET s == initContextFromInputStream_setup(input_stream, fail, t, attached)
         IN /\ call' = [NoCall EXCEPT !.name = "initContextFromInputStream",
                                      !.stream = input_stream]
            /\ thr' = t
            /\ SetRes(s.R)
            /\ cb' = s.cb
            /\ exc' = s.exc
            /\ IF s.ok
               THEN /\ pc' = "load"
                    /\ engineCalls' =
                         <<ECall("whisper_context_default_params", NULL, NullStr, NoParams),
                           ECall("whisper_init_with_params", NULL, NullStr, NoParams)>>
                    /\ StartLoad("is")
               ELSE /\ pc' = "returned"
                    /\ NoStream
                    /\ UNCHANGED <<engineCalls, loader>>
            /\ UNCHANGED <<ret, closeCalls, live, segs, assetOpen, assetClosed, jni>>

(***************************************************************************)
(* The asset loader.  AAsset_read yields -1 on an error, 0 at the end and  *)
(* otherwise the number of bytes read, at most read_size.                  *)
(***************************************************************************)
AssetResponses(d, p, read_size) ==
    {-1} \cup (IF p = Len(d) THEN {0} ELSE 1..Min(read_size, Len(d) - p))

\* asset_read: r is what AAsset_read returned
asset_read(r) == IF r > 0 THEN r ELSE 0

\* asset_eof: AAsset_getRemainingLength64(ctx) <= 0
asset_eof(d, p) == Len(d) - p <= 0

\* a variant of asset_close that leaves the asset open
asset_close_leave_open(ctx) == 0

\* asset_close: the number of AAsset_close calls it makes
asset_close(ctx) == IF ctx # NULL THEN 1 ELSE 0

\* a variant that checks the entry name alone
whisper_init_from_asset_path_only(assetManager, asset_path, fromJavaOK, openOK) ==
    asset_path # NullStr /\ openOK

\* whisper_init_from_asset, up to the call of the engine: does it reach it?
whisper_init_from_asset(assetManager, asset_path, fromJavaOK, openOK) ==
    IF assetManager = NULL \/ asset_path = NullStr THEN FALSE
    ELSE IF ~fromJavaOK THEN FALSE
    ELSE IF ~openOK THEN FALSE
    ELSE TRUE

\* GetStringUTFChars: the characters of the string, or NULL when it fails
GetStringUTFChars(jstr, convOK) == IF convOK THEN jstr ELSE NullStr

Java_com_negi_nativelib_WhisperLib_initContextFromAsset ==
    /\ UNCHANGED <<retStr, engineRet, cb, rd>>
    /\ pc = "idle"
    /\ \E t \in Threads, assetManager \in {NULL, MGR_OBJ},
          asset_path_str \in {NullStr, Str(""), Str("en")},
          convOK \in BOOLEAN, fromJavaOK \in BOOLEAN, openOK \in BOOLEAN :
         LET path == GetStringUTFChars(asset_path_str, convOK)
             go   == /\ asset_path_str # NullStr
                     /\ path # NullStr
                     /\ whisper_init_from_asset(assetManager, path, fromJavaOK, openOK)
         \* no entry of the container has the empty name
         IN /\ (openOK => asset_path_str # Str(""))
            /\ call' = [NoCall EXCEPT !.name = "initContextFromAsset",
                                      !.mgr = assetManager, !.str = asset_path_str]
            /\ thr' = t
            /\ jni' = [jni EXCEPT !.utfGet =
                          IF asset_path_str # NullStr /\ path # NullStr THEN 1 ELSE 0,
                                    !.utfRel =
                          IF asset_path_str # NullStr /\ path # NullStr /\ ~go
                          THEN 1 ELSE 0]
            /\ IF go
               THEN /\ pc' = "load"
                    /\ assetOpen' = 1
                    /\ engineCalls' =
                         <<ECall("whisper_context_default_params", NULL, NullStr, NoParams),
                           ECall("whisper_init_with_params", NULL, NullStr, NoParams)>>
                    /\ StartLoad("asset")
               ELSE /\ pc' = "returned"
                    /\ NoStream
                    /\ UNCHANGED <<engineCalls, loader, assetOpen>>
            /\ UNCHANGED <<ret, attached, exc, is, heap, freeCount, refNew, refDel,
                           faults, closeCalls, live, segs, assetClosed>>

(***************************************************************************)
(* The engine's loading loop (whisper_init_with_params, not in this        *)
(* repository): it calls read() until it has the bytes it needs or eof()   *)
(* is true, then calls close() once and returns a context or NULL.         *)
(***************************************************************************)
EngineWantsMore ==
    /\ Len(received) < need
    /\ IF loader = "is" THEN ~is_eof(1, Res) ELSE ~asset_eof(data, pos)

\* A stream that breaks the contract of InputStream.read: it reports more
\* bytes than the chunk it was asked for, up to one more than the buffer holds.
StreamOverReports(d, p, buf, chunk) ==
    {[threw |-> FALSE, n |-> k,
      buf |-> [i \in 1..Len(buf) |->
                 IF i <= Min(chunk, Len(d) - p) THEN d[p + i] ELSE buf[i]],
      adv |-> Min(chunk, Len(d) - p)] : k \in (chunk + 1)..(Len(buf) + 1)}

\* One read() of the loader on thread t.  over: the stream over-reports.
LoaderReadStep(t, attachOK, over) ==
    /\ pc = "load"
    /\ Len(received) < need
    /\ \E read_size \in 1..(need - Len(received)) :
         IF loader = "is"
         THEN \E pinOK \in BOOLEAN,
                 resp \in IF over
                          THEN StreamOverReports(data, pos, jbuf, Chunk(is, read_size))
                          ELSE StreamResponses(data, pos, jbuf, Chunk(is, read_size)) :
                LET r == is_read(1, Res, read_size, t, attachOK, resp, pinOK)
                IN /\ is' = [is EXCEPT !.eof = r.eof]
                   /\ attached' = r.att
                   /\ received' = received \o r.out
                   /\ cb' = Cb("read", t, is.jvm, attached, attachOK, r.resolved,
                               r.called)
                   /\ rd' = [req |-> read_size, chunk |-> Chunk(is, read_size),
                             reported |-> IF r.called /\ ~resp.threw THEN resp.n ELSE 0,
                             n |-> r.n, copied |-> Len(r.out),
                             threw |-> r.called /\ resp.threw,
                             cleared |-> r.cleared, called |-> r.called]
                   \* memcpy past the end of the engine's buffer is undefined
                   /\ faults' = faults \cup (IF Len(r.out) > read_size
                                             THEN {"buffer_overflow"} ELSE {})
                   /\ pc' \in IF Len(r.out) > read_size THEN {"load", "aborted"}
                              ELSE {"load"}
                   /\ IF r.called
                      THEN /\ pos' = pos + resp.adv
                           /\ jbuf' = resp.buf
                           /\ streamEnd' = (streamEnd \/ (~resp.threw /\ resp.n <= 0))
                           /\ exc' = (resp.threw /\ ~r.cleared)
                      ELSE UNCHANGED <<pos, jbuf, streamEnd, exc>>
         ELSE \E r \in AssetResponses(data, pos, read_size) :
                /\ received' = received \o SubSeq(data, pos + 1, pos + asset_read(r))
                /\ pos' = pos + asset_read(r)
                /\ UNCHANGED <<pc, is, attached, jbuf, streamEnd, exc, cb, rd, faults>>
    /\ UNCHANGED <<call, ret, thr, engineCalls, heap, freeCount, refNew,
                   refDel, data, need, closeCalls, live, segs, loader,
                   assetOpen, assetClosed, jni, retStr, engineRet>>

\* The engine calls read() in its loop, on thread t.
LoaderRead(t, attachOK, over) ==
    /\ EngineWantsMore
    /\ LoaderReadStep(t, attachOK, over)

\* the engine reads on the thread that called the loader
whisper_init_with_params_read == LoaderRead(thr, TRUE, FALSE)

\* the engine reads the stream again although the loader said it was exhausted
whisper_init_with_params_read_after_eof ==
    /\ loader = "is"
    /\ is_eof(1, Res)
    /\ LoaderReadStep(thr, TRUE, FALSE)

\* the engine reads the stream on a thread of its own
whisper_init_with_params_read_worker ==
    /\ loader = "is"
    /\ \E t \in Workers, attachOK \in BOOLEAN : LoaderRead(t, attachOK, FALSE)

\* the engine reads a stream that over-reports
whisper_init_with_params_read_overreported ==
    /\ loader = "is"
    /\ LoaderRead(thr, TRUE, TRUE)

\* The engine is done with the loader: it calls close() on thread t and
\* returns a context or NULL.
LoaderClose(t, attachOK) ==
    /\ pc = "load"
    /\ ~EngineWantsMore
    /\ \E h \in {NULL} \cup (Handles \ live) :
         /\ (h # NULL => Len(received) >= need)
         /\ ret' = h
         /\ live' = live \cup ({h} \ {NULL})
    /\ IF loader = "is"
       THEN /\ SetRes(is_close(1, Res, t, attachOK, is))
            /\ cb' = Cb("close", t, is.jvm, attached, attachOK,
                        is_close_env(1, Res, t, attachOK, is),
                        is_close(1, Res, t, attachOK, is).refDel # refDel)
            /\ UNCHANGED assetClosed
       ELSE /\ assetClosed' = assetClosed + asset_close(ASSET)
            /\ UNCHANGED <<is, heap, freeCount, refNew, refDel, faults, attached, cb>>
    /\ closeCalls' = closeCalls + 1
    /\ pc' = "engine_ret"
    /\ UNCHANGED <<call, thr, exc, engineCalls, data, pos, streamEnd, jbuf,
                   received, need, segs, loader, assetOpen, jni, retStr,
                   engineRet, rd>>

whisper_init_with_params_close == LoaderClose(thr, TRUE)

\* the engine closes the stream loader on a thread of its own
whisper_init_with_params_close_worker ==
    /\ loader = "is"
    /\ \E t \in Workers, attachOK \in BOOLEAN : LoaderClose(t, attachOK)

\* if (!ctx) { is_close(inp); return 0; }  return (jlong) ctx;
initContextFromInputStream_return ==
    /\ pc = "engine_ret"
    /\ loader = "is"
    /\ IF ret = NULL
       THEN \E view \in FreedViews :
              LET R == is_close(1, Res, thr, TRUE, view)
              IN /\ SetRes(R)
                 /\ cb' = Cb("close", thr, view.jvm, attached, TRUE,
                             is_close_env(1, Res, thr, TRUE, view),
                             R.refDel # refDel)
                 /\ pc' \in IF R.faults = {} THEN {"returned"}
                            ELSE {"returned", "aborted"}
       ELSE /\ pc' = "returned"
            /\ UNCHANGED <<is, heap, freeCount, refNew, refDel, faults, attached, cb>>
    /\ UNCHANGED <<call, ret, thr, exc, engineCalls, data, pos, streamEnd, jbuf,
                   received, need, closeCalls, live, segs, loader, assetOpen,
                   assetClosed, jni, retStr, engineRet, rd>>

\* ReleaseStringUTFChars(env, asset_path_str, path); return (jlong) ctx;
initContextFromAsset_return ==
    /\ UNCHANGED <<retStr, engineRet, cb, rd>>
    /\ pc = "engine_ret"
    /\ loader = "asset"
    /\ jni' = [jni EXCEPT !.utfRel = @ + 1]
    /\ pc' = "returned"
    /\ UNCHANGED <<call, ret, thr, attached, exc, engineCalls, is, heap,
                   freeCount, refNew, refDel, faults, data, pos, streamEnd, jbuf,
                   received, need, closeCalls, live, segs, loader, assetOpen,
                   assetClosed>>

(***************************************************************************)
(* The file-path loader.  The engine's result is a new handle or NULL.     *)
(***************************************************************************)
Java_com_negi_nativelib_WhisperLib_initContext ==
    /\ UNCHANGED <<retStr, engineRet, cb, rd>>
    /\ pc = "idle"
    /\ \E t \in Threads, model_path_str \in {NullStr, Str(""), Str("en")},
          convOK \in BOOLEAN, h \in {NULL} \cup (Handles \ live) :
         LET path == GetStringUTFChars(model_path_str, convOK)
             go   == model_path_str # NullStr /\ path # NullStr
         \* no file has the empty path: the engine fails to open it
         IN /\ (path = Str("") => h = NULL)
            /\ call' = [NoCall EXCEPT !.name = "initContext", !.str = model_path_str]
            /\ thr' = t
            /\ IF go
               THEN /\ engineCalls' =
                         <<ECall("whisper_context_default_params", NULL, NullStr, NoParams),
                           ECall("whisper_init_from_file_with_params", NULL, path, NoParams)>>
                    /\ jni' = [jni EXCEPT !.utfGet = 1, !.utfRel = 1]
                    /\ ret' = h
                    /\ live' = live \cup ({h} \ {NULL})
               ELSE /\ ret' = NULL
                    /\ UNCHANGED <<engineCalls, jni, live>>
            /\ pc' = "returned"
            /\ UNCHANGED <<attached, exc, is, heap, freeCount, refNew, refDel, faults,
                           data, pos, streamEnd, jbuf, received, need, closeCalls,
                           segs, loader, assetOpen, assetClosed>>

(***************************************************************************)
(* freeContext: the engine calls it makes.  A conformant host passes zero  *)
(* or a handle it holds.                                                   *)
(***************************************************************************)
\* a variant without the check of the handle
freeContext_unchecked(context_ptr) ==
    <<ECall("whisper_free", context_ptr, NullStr, NoParams)>>

freeContext(context_ptr) ==
    IF context_ptr # NULL
    THEN <<ECall("whisper_free", context_ptr, NullStr, NoParams)>>
    ELSE <<>>

\* the handles whisper_free was called on
Destroyed(calls) == {calls[i].h : i \in {j \in DOMAIN calls : calls[j].fn = "whisper_free"}}

Java_com_negi_nativelib_WhisperLib_freeContext ==
    /\ UNCHANGED <<retStr, engineRet, cb, rd>>
    /\ pc = "idle"
    /\ \E t \in Threads, context_ptr \in {NULL} \cup live :
         /\ call' = [NoCall EXCEPT !.name = "freeContext", !.h = context_ptr]
         /\ thr' = t
         /\ engineCalls' = freeContext(context_ptr)
         /\ live' = live \ Destroyed(engineCalls')
         /\ segs' = [h \in Handles |-> IF h \in Destroyed(engineCalls') THEN 0 ELSE segs[h]]
         /\ pc' = "returned"
         /\ UNCHANGED <<ret, attached, exc, is, heap, freeCount, refNew, refDel,
                        faults, data, pos, streamEnd, jbuf, received, need,
                        closeCalls, loader, assetOpen, assetClosed, jni>>

(***************************************************************************)
(* fullTranscribe.  whisper_full_default_params is the engine's; of its    *)
(* result only the fields the code leaves alone matter here.               *)
(***************************************************************************)
whisper_full_default_params ==
    [n_threads |-> 4, translate |-> FALSE, no_context |-> TRUE,
     print_realtime |-> FALSE, print_progress |-> TRUE,
     print_timestamps |-> TRUE, print_special |-> FALSE,
     language |-> Str("en"), detect_language |-> FALSE]

\* a variant that lets a thread count of zero through
fullTranscribe_n_threads_nonneg(num_threads) ==
    IF num_threads >= 0 THEN num_threads ELSE 1

\* p.n_threads = (num_threads > 0 ? num_threads : 1)
fullTranscribe_n_threads(num_threads) ==
    IF num_threads > 0 THEN num_threads ELSE 1

\* a variant that takes the empty string for a language
fullTranscribe_language_nonnull(p, lang) ==
    IF lang # NullStr /\ lang # Str("auto")
    THEN [p EXCEPT !.language = lang, !.detect_language = FALSE]
    ELSE [p EXCEPT !.detect_language = TRUE]

\* if (lang && lang[0] != '\0' && strcmp(lang, "auto") != 0) { ... } else { ... }
fullTranscribe_language(p, lang) ==
    IF lang # NullStr /\ lang # Str("") /\ lang # Str("auto")
    THEN [p EXCEPT !.language = lang, !.detect_language = FALSE]
    ELSE [p EXCEPT !.detect_language = TRUE]

\* a variant that prints the timings whatever the status
fullTranscribe_engine_print(ctx, p, status) ==
    <<ECall("whisper_reset_timings", ctx, NullStr, NoParams),
      ECall("whisper_full", ctx, NullStr, p),
      ECall("whisper_print_timings", ctx, NullStr, NoParams)>>

\* whisper_reset_timings(ctx); if (whisper_full(...) != 0) LOGW else
\* whisper_print_timings(ctx);  status is what whisper_full returns
fullTranscribe_engine(ctx, p, status) ==
    <<ECall("whisper_reset_timings", ctx, NullStr, NoParams),
      ECall("whisper_full", ctx, NullStr, p)>>
    \o (IF status # 0
        THEN <<>>
        ELSE <<ECall("whisper_print_timings", ctx, NullStr, NoParams)>>)

\* a variant that releases the string whenever the host gave one
fullTranscribe_release_given(lang_str, lang) ==
    [utfRel |-> IF lang_str # NullStr THEN 1 ELSE 0, arrRel |-> 1, arrAbort |-> 1]

\* if (lang_str && lang) ReleaseStringUTFChars(...);
\* ReleaseFloatArrayElements(env, audio_data, pcm, JNI_ABORT);
fullTranscribe_release(lang_str, lang) ==
    [utfRel |-> IF lang_str # NullStr /\ lang # NullStr THEN 1 ELSE 0,
     arrRel |-> 1, arrAbort |-> 1]

\* pinOK: GetFloatArrayElements yields a pointer; convOK: GetStringUTFChars
\* does; status: what whisper_full returns.  Yields the engine calls made and
\* the host resources acquired and released.
fullTranscribe_run(context_ptr, lang_str, num_threads, translate, audio_data, pinOK, convOK, status) ==
    IF ~pinOK
    THEN [calls |-> <<>>, jni |-> NoJni]
    ELSE
      LET lang == IF lang_str # NullStr
                  THEN GetStringUTFChars(lang_str, convOK) ELSE NullStr
          p0 == [whisper_full_default_params EXCEPT
                   !.n_threads = fullTranscribe_n_threads(num_threads),
                   !.translate = translate,
                   !.no_context = TRUE,
                   !.print_realtime = FALSE,
                   !.print_progress = FALSE,
                   !.print_timestamps = FALSE,
                   !.print_special = FALSE]
          p  == fullTranscribe_language(p0, lang)
          rel == fullTranscribe_release(lang_str, lang)
      IN [calls |->
            <<ECall("whisper_full_default_params", NULL, NullStr, NoParams)>>
            \o fullTranscribe_engine(context_ptr, p, status),
          jni |-> [utfGet |-> IF lang # NullStr THEN 1 ELSE 0,
                   utfRel |-> rel.utfRel,
                   arrGet |-> 1, arrRel |-> rel.arrRel, arrAbort |-> rel.arrAbort]]

\* a variant that checks the handle alone
fullTranscribe_ctx_only(context_ptr, lang_str, num_threads, translate, audio_data, pinOK, convOK, status) ==
    IF context_ptr = NULL
    THEN [calls |-> <<>>, jni |-> NoJni]
    ELSE fullTranscribe_run(context_ptr, lang_str, num_threads, translate,
                            audio_data, pinOK, convOK, status)

\* if (!ctx || !audio_data) return;
fullTranscribe(context_ptr, lang_str, num_threads, translate, audio_data, pinOK, convOK, status) ==
    IF context_ptr = NULL \/ audio_data = NULL
    THEN [calls |-> <<>>, jni |-> NoJni]
    ELSE fullTranscribe_run(context_ptr, lang_str, num_threads, translate,
                            audio_data, pinOK, convOK, status)

\* whisper_full ran in these calls
RanFull(calls) == \E i \in DOMAIN calls : calls[i].fn = "whisper_full"

Java_com_negi_nativelib_WhisperLib_fullTranscribe ==
    /\ UNCHANGED <<retStr, cb, rd>>
    /\ pc = "idle"
    /\ \E t \in Threads, context_ptr \in {NULL} \cup live, lang_str \in HostStrings,
          num_threads \in -1..MaxThreads, translate \in BOOLEAN,
          audio_data \in {NULL, AUDIO_OBJ} :
       \* the outcomes of the runtime and of the engine, where they are asked
       \E pinOK \in IF context_ptr = NULL \/ audio_data = NULL THEN {TRUE} ELSE BOOLEAN :
       \E convOK \in IF pinOK /\ lang_str # NullStr THEN BOOLEAN ELSE {TRUE} :
       \E status \in IF pinOK THEN {0, 1} ELSE {0} :
         LET r == fullTranscribe(context_ptr, lang_str, num_threads, translate,
                                 audio_data, pinOK, convOK, status)
         IN /\ call' = [NoCall EXCEPT !.name = "fullTranscribe", !.h = context_ptr,
                                      !.str = lang_str, !.nthreads = num_threads,
                                      !.translate = translate, !.audio = audio_data]
            /\ thr' = t
            /\ engineCalls' = r.calls
            /\ engineRet' = [NoEngineRet EXCEPT !.val = IF RanFull(r.calls) THEN status ELSE 0]
            /\ jni' = r.jni
            \* the segments after a run are the engine's business
            /\ IF RanFull(r.calls)
               THEN \E k \in 0..MaxSeg : segs' = [segs EXCEPT ![context_ptr] = k]
               ELSE UNCHANGED segs
            /\ pc' = "returned"
            /\ UNCHANGED <<ret, attached, exc, is, heap, freeCount, refNew, refDel,
                           faults, data, pos, streamEnd, jbuf, received, need,
                           closeCalls, live, loader, assetOpen, assetClosed>>

(***************************************************************************)
(* The segment accessors.  The engine's answers are inputs: the count is   *)
(* the engine's segment count of the handle, a timestamp is any number, a  *)
(* text is NULL or any bytes (the engine is asked whatever the index is).  *)
(***************************************************************************)
\* one call of an engine accessor: its name, handle and segment index
ECallAt(fn, h, i) == [fn |-> fn, h |-> h, i |-> i]

\* The bytes a char* of the engine can hold: 97 is the ASCII letter a, 195 the
\* first byte of a two-byte form, 169 a continuation byte (195 169 is U+00E9).
TextBytes == {97, 195, 169}
Texts == {NullStr} \cup {Str(b) : b \in UNION {[1..n -> TextBytes] : n \in 0..MaxText}}

IsAscii(b) == b < 128
IsLead2(b) == b \in 192..223
IsCont(b) == b \in 128..191

\* the bytes are modified UTF-8 (one-byte and two-byte forms)
RECURSIVE ValidModifiedUTF8(_)
ValidModifiedUTF8(b) ==
    IF b = <<>> THEN TRUE
    ELSE IF IsAscii(b[1]) THEN ValidModifiedUTF8(Tail(b))
    ELSE IF IsLead2(b[1]) /\ Len(b) >= 2 /\ IsCont(b[2])
    THEN ValidModifiedUTF8(Tail(Tail(b)))
    ELSE FALSE

\* the UTF-16 code units that valid modified UTF-8 bytes stand for
RECURSIVE DecodeModifiedUTF8(_)
DecodeModifiedUTF8(b) ==
    IF b = <<>> THEN <<>>
    ELSE IF IsAscii(b[1]) THEN <<b[1]>> \o DecodeModifiedUTF8(Tail(b))
    ELSE <<(b[1] - 192) * 64 + (b[2] - 128)>> \o DecodeModifiedUTF8(Tail(Tail(b)))

\* what a runtime that does not check makes of bytes that are not modified
\* UTF-8: each byte it cannot place becomes U+FFFD
RECURSIVE DecodeLenient(_)
DecodeLenient(b) ==
    IF b = <<>> THEN <<>>
    ELSE IF IsAscii(b[1]) THEN <<b[1]>> \o DecodeLenient(Tail(b))
    ELSE IF IsLead2(b[1]) /\ Len(b) >= 2 /\ IsCont(b[2])
    THEN <<(b[1] - 192) * 64 + (b[2] - 128)>> \o DecodeLenient(Tail(Tail(b)))
    ELSE <<65533>> \o DecodeLenient(Tail(b))

\* NewStringUTF(env, chars): the jstring of the code units the bytes stand
\* for.  Bytes that are not modified UTF-8 are outside its contract: a runtime
\* that checks its arguments aborts the process, one that does not makes a
\* string of what it can decode.  NewStringUTF(NULL) is the null reference.
NewStringUTF(chars) ==
    IF chars = NullStr THEN {[str |-> NullStr, abort |-> FALSE]}
    ELSE IF ValidModifiedUTF8(chars[1])
    THEN {[str |-> Str(DecodeModifiedUTF8(chars[1])), abort |-> FALSE]}
    ELSE {[str |-> NullStr, abort |-> TRUE],
          [str |-> Str(DecodeLenient(chars[1])), abort |-> FALSE]}

\* return context_ptr ? whisper_full_n_segments(ctx) : 0;  n is the engine's answer
getTextSegmentCount(context_ptr, n) ==
    IF context_ptr # NULL
    THEN [calls |-> <<ECallAt("whisper_full_n_segments", context_ptr, 0)>>, ret |-> n]
    ELSE [calls |-> <<>>, ret |-> 0]

\* return context_ptr ? whisper_full_get_segment_t0(ctx, index) : 0;
getTextSegmentT0(context_ptr, index, t0) ==
    IF context_ptr # NULL
    THEN [calls |-> <<ECallAt("whisper_full_get_segment_t0", context_ptr, index)>>,
          ret |-> t0]
    ELSE [calls |-> <<>>, ret |-> 0]

\* return context_ptr ? whisper_full_get_segment_t1(ctx, index) : 0;
getTextSegmentT1(context_ptr, index, t1) ==
    IF context_ptr # NULL
    THEN [calls |-> <<ECallAt("whisper_full_get_segment_t1", context_ptr, index)>>,
          ret |-> t1]
    ELSE [calls |-> <<>>, ret |-> 0]

\* a variant that hands the engine's answer to NewStringUTF as it is
getTextSegment_unguarded(context_ptr, index, text) ==
    IF context_ptr = NULL
    THEN [calls |-> <<>>, chars |-> Str(<<>>)]
    ELSE [calls |-> <<ECallAt("whisper_full_get_segment_text", context_ptr, index)>>,
          chars |-> text]

\* if (!context_ptr) return NewStringUTF(env, "");
\* s = whisper_full_get_segment_text(ctx, index); return NewStringUTF(env, s ? s : "");
\* text is the engine's answer; yields the bytes given to NewStringUTF
getTextSegment(context_ptr, index, text) ==
    IF context_ptr = NULL
    THEN [calls |-> <<>>, chars |-> Str(<<>>)]
    ELSE [calls |-> <<ECallAt("whisper_full_get_segment_text", context_ptr, index)>>,
          chars |-> IF text # NullStr THEN text ELSE Str(<<>>)]

\* what an accessor leaves alone
AccessorFrame ==
    UNCHANGED <<attached, exc, is, heap, freeCount, refNew, refDel, faults, data,
                pos, streamEnd, jbuf, received, need, closeCalls, live, segs,
                loader, assetOpen, assetClosed, jni, cb, rd>>

Java_com_negi_nativelib_WhisperLib_getTextSegmentCount ==
    /\ pc = "idle"
    /\ \E t \in Threads, context_ptr \in {NULL} \cup live :
         LET n == IF context_ptr # NULL THEN segs[context_ptr] ELSE 0
             r == getTextSegmentCount(context_ptr, n)
         IN /\ call' = [NoCall EXCEPT !.name = "getTextSegmentCount", !.h = context_ptr]
            /\ thr' = t
            /\ engineCalls' = r.calls
            /\ engineRet' = [NoEngineRet EXCEPT !.val = n]
            /\ ret' = r.ret
            /\ pc' = "returned"
    /\ UNCHANGED retStr
    /\ AccessorFrame

Java_com_negi_nativelib_WhisperLib_getTextSegmentT0 ==
    /\ pc = "idle"
    /\ \E t \in Threads, context_ptr \in {NULL} \cup live, index \in -1..MaxSeg :
       \E t0 \in IF context_ptr # NULL THEN 0..MaxT ELSE {0} :
         LET r == getTextSegmentT0(context_ptr, index, t0)
         IN /\ call' = [NoCall EXCEPT !.name = "getTextSegmentT0", !.h = context_ptr,
                                      !.index = index]
            /\ thr' = t
            /\ engineCalls' = r.calls
            /\ engineRet' = [NoEngineRet EXCEPT !.val = t0]
            /\ ret' = r.ret
            /\ pc' = "returned"
    /\ UNCHANGED retStr
    /\ AccessorFrame

Java_com_negi_nativelib_WhisperLib_getTextSegmentT1 ==
    /\ pc = "idle"
    /\ \E t \in Threads, context_ptr \in {NULL} \cup live, index \in -1..MaxSeg :
       \E t1 \in IF context_ptr # NULL THEN 0..MaxT ELSE {0} :
         LET r == getTextSegmentT1(context_ptr, index, t1)
         IN /\ call' = [NoCall EXCEPT !.name = "getTextSegmentT1", !.h = context_ptr,
                                      !.index = index]
            /\ thr' = t
            /\ engineCalls' = r.calls
            /\ engineRet' = [NoEngineRet EXCEPT !.val = t1]
            /\ ret' = r.ret
            /\ pc' = "returned"
    /\ UNCHANGED retStr
    /\ AccessorFrame

Java_com_negi_nativelib_WhisperLib_getTextSegment ==
    /\ pc = "idle"
    /\ \E t \in Threads, context_ptr \in {NULL} \cup live, index \in -1..MaxSeg :
       \E text \in IF context_ptr # NULL THEN Texts ELSE {NullStr} :
         LET r == getTextSegment(context_ptr, index, text)
         IN \E o \in NewStringUTF(r.chars) :
              /\ call' = [NoCall EXCEPT !.name = "getTextSegment", !.h = context_ptr,
                                        !.index = index]
              /\ thr' = t
              /\ engineCalls' = r.calls
              /\ engineRet' = [NoEngineRet EXCEPT !.text = text]
              /\ retStr' = o.str
              /\ pc' = IF o.abort THEN "aborted" ELSE "returned"
    /\ UNCHANGED ret
    /\ AccessorFrame

\* The host takes the result and goes on; nothing of the call is left but the
\* engine's handles, their segments and the threads' attachment.
HostContinues ==
    /\ pc = "returned"
    /\ pc' = "idle"
    /\ call' = NoCall
    /\ ret' = NULL
    /\ thr' = 1
    /\ exc' = FALSE
    /\ engineCalls' = <<>>
    /\ SetRes(NoRes(attached))
    /\ NoStream
    /\ NoAsset
    /\ closeCalls' = 0
    /\ loader' = "none"
    /\ jni' = NoJni
    /\ retStr' = NullStr
    /\ engineRet' = NoEngineRet
    /\ cb' = NoCb
    /\ rd' = NoRd
    /\ UNCHANGED <<live, segs>>

Init ==
    /\ pc = "idle"
    /\ call = NoCall
    /\ ret = NULL
    /\ thr = 1
    /\ attached = Threads
    /\ exc = FALSE
    /\ engineCalls = <<>>
    /\ is = input_stream_context
    /\ heap = "none"
    /\ freeCount = 0
    /\ refNew = [stream |-> 0, buffer |-> 0]
    /\ refDel = [stream |-> 0, buffer |-> 0]
    /\ faults = {}
    /\ data = <<>>
    /\ pos = 0
    /\ streamEnd = FALSE
    /\ jbuf = <<>>
    /\ received = <<>>
    /\ need = 0
    /\ closeCalls = 0
    /\ live = {}
    /\ segs = [h \in Handles |-> 0]
    /\ loader = "none"
    /\ assetOpen = 0
    /\ assetClosed = 0
    /\ jni = NoJni
    /\ retStr = NullStr
    /\ engineRet = NoEngineRet
    /\ cb = NoCb
    /\ rd = NoRd

Next ==
    \/ Java_com_negi_nativelib_WhisperLib_initContextFromInputStream
    \/ Java_com_negi_nativelib_WhisperLib_initContextFromAsset
    \/ Java_com_negi_nativelib_WhisperLib_initContext
    \/ Java_com_negi_nativelib_WhisperLib_freeContext
    \/ Java_com_negi_nativelib_WhisperLib_fullTranscribe
    \/ Java_com_negi_nativelib_WhisperLib_getTextSegmentCount
    \/ Java_com_negi_nativelib_WhisperLib_getTextSegment
    \/ Java_com_negi_nativelib_WhisperLib_getTextSegmentT0
    \/ Java_com_negi_nativelib_WhisperLib_getTextSegmentT1
    \/ whisper_init_with_params_read
    \/ whisper_init_with_params_read_worker
    \/ whisper_init_with_params_read_overreported
    \/ whisper_init_with_params_read_after_eof
    \/ whisper_init_with_params_close
    \/ whisper_init_with_params_close_worker
    \/ initContextFromInputStream_return
    \/ initContextFromAsset_return
    \/ HostContinues

Spec == Init /\ [][Next]_vars

\* The host loads and releases models and does nothing else.
LoaderNext ==
    \/ Java_com_negi_nativelib_WhisperLib_initContextFromInputStream
    \/ Java_com_negi_nativelib_WhisperLib_initContextFromAsset
    \/ Java_com_negi_nativelib_WhisperLib_initContext
    \/ Java_com_negi_nativelib_WhisperLib_freeContext
    \/ whisper_init_with_params_read
    \/ whisper_init_with_params_close
    \/ initContextFromInputStream_return
    \/ initContextFromAsset_return
    \/ HostContinues

LoaderSpec == Init /\ [][LoaderNext]_vars

\* The host loads models from streams; the engine runs the loader's callbacks
\* on the calling thread or on a thread of its own.
CallbackNext ==
    \/ Java_com_negi_nativelib_WhisperLib_initContextFromInputStream
    \/ whisper_init_with_params_read
    \/ whisper_init_with_params_read_worker
    \/ whisper_init_with_params_close
    \/ whisper_init_with_params_close_worker
    \/ initContextFromInputStream_return
    \/ HostContinues

CallbackSpec == Init /\ [][CallbackNext]_vars

\* The host loads models from streams that may over-report.
MisreportNext ==
    \/ Java_com_negi_nativelib_WhisperLib_initContextFromInputStream
    \/ whisper_init_with_params_read
    \/ whisper_init_with_params_read_overreported
    \/ whisper_init_with_params_close
    \/ initContextFromInputStream_return
    \/ HostContinues

MisreportSpec == Init /\ [][MisreportNext]_vars

\* The host loads models from streams; the engine may go on reading a loader
\* that said it was exhausted.
EofNext ==
    \/ Java_com_negi_nativelib_WhisperLib_initContextFromInputStream
    \/ whisper_init_with_params_read
    \/ whisper_init_with_params_read_after_eof
    \/ whisper_init_with_params_close
    \/ initContextFromInputStream_return
    \/ HostContinues

EofSpec == Init /\ [][EofNext]_vars

\* The host loads models from files, transcribes and releases.
SessionNext ==
    \/ Java_com_negi_nativelib_WhisperLib_initContext
    \/ Java_com_negi_nativelib_WhisperLib_freeContext
    \/ Java_com_negi_nativelib_WhisperLib_fullTranscribe
    \/ HostContinues

SessionSpec == Init /\ [][SessionNext]_vars

\* The host loads models from files, transcribes, reads the segments and
\* releases.
ProjectorNext ==
    \/ Java_com_negi_nativelib_WhisperLib_initContext
    \/ Java_com_negi_nativelib_WhisperLib_freeContext
    \/ Java_com_negi_nativelib_WhisperLib_fullTranscribe
    \/ Java_com_negi_nativelib_WhisperLib_getTextSegmentCount
    \/ Java_com_negi_nativelib_WhisperLib_getTextSegment
    \/ Java_com_negi_nativelib_WhisperLib_getTextSegmentT0
    \/ Java_com_negi_nativelib_WhisperLib_getTextSegmentT1
    \/ HostContinues

ProjectorSpec == Init /\ [][ProjectorNext]_vars

(***************************************************************************)
(* Properties.                                                             *)
(***************************************************************************)
\* an engine initialization entry point was invoked during the call
InitCalled ==
    \E i \in DOMAIN engineCalls :
       engineCalls[i].fn \in {"whisper_init_with_params",
                              "whisper_init_from_file_with_params"}

\* the call is over: it returned, or the process died in it
Ended == pc \in {"returned", "aborted"}

\* open_from_stream whose setup succeeded, so that the engine was given the loader
StreamHandedOver == call.name = "initContextFromInputStream" /\ loader = "is"

\* C1: in open_from_stream, once the loader is handed to the engine and the
\* engine has called close() once, at the end of the call the stream reference
\* and the buffer reference were each released once, the struct was freed once
\* and never touched after it was freed, whether the engine succeeded or not.
C1_ReleasedOnce ==
    (StreamHandedOver /\ Ended /\ closeCalls = 1)
      => /\ refDel.stream = 1
         /\ refDel.buffer = 1
         /\ freeCount = 1
         /\ faults = {}

\* C2: close() is idempotent: when it has run twice on the same stream context
\* no freed memory was accessed and no reference was released a second time.
C2_CloseIdempotent ==
    (StreamHandedOver /\ freeCount >= 2)
      => /\ faults = {}
         /\ refDel.stream <= 1
         /\ refDel.buffer <= 1

\* C3: the bytes the engine has received from the stream loader are at all
\* times the first bytes of the stream, in order; once the stream has reported
\* the end of its data, having delivered its N bytes in portions of 1 to the
\* requested length, they are exactly the N bytes.
C3_AllBytesInOrder ==
    loader = "is"
      => /\ Len(received) <= Len(data)
         /\ received = SubSeq(data, 1, Len(received))
         /\ (streamEnd => received = data)

\* the stream ended after delivering all its bytes in several portions, one of
\* them cut to the buffer's capacity
C3_Witness ==
    /\ loader = "is"
    /\ streamEnd
    /\ Len(data) = MaxN
    /\ received = data
    /\ MaxN > BufCap

\* a required input of the loader called is null
NullInput ==
    \/ call.name = "initContextFromInputStream" /\ call.stream = NULL
    \/ call.name = "initContextFromAsset" /\ (call.mgr = NULL \/ call.str = NullStr)
    \/ call.name = "initContext" /\ call.str = NullStr

\* C4: a loader given a null required input returns the zero handle and calls
\* no engine initialization entry point.
C4_NullInputNoEngine ==
    NullInput => /\ pc \in {"returned"}
                 /\ ret = NULL
                 /\ ~InitCalled

\* open_from_asset returned from a null container manager and a good name
C4_Witness ==
    /\ pc = "returned"
    /\ call.name = "initContextFromAsset"
    /\ call.mgr = NULL
    /\ call.str = Str("en")
    /\ jni.utfGet = 1

\* a required string of the loader called is empty, and not null
EmptyInput ==
    /\ call.name \in {"initContextFromAsset", "initContext"}
    /\ call.str = Str("")

\* C5: a loader given an empty required string returns the zero handle and
\* calls no engine initialization entry point.
C5_EmptyInputNoEngine ==
    EmptyInput => /\ ret = NULL
                  /\ ~InitCalled

\* open_from_stream returned from a failed setup step
SetupFailed ==
    /\ pc = "returned"
    /\ call.name = "initContextFromInputStream"
    /\ call.stream # NULL
    /\ loader = "none"

\* C6: open_from_stream whose setup fails at any step returns the zero handle,
\* never calls the engine and holds nothing on return: every reference it made
\* is released, once, and the struct is not allocated.
C6_SetupFailureReleasesAll ==
    SetupFailed
      => /\ ret = NULL
         /\ engineCalls = <<>>
         /\ refDel = refNew
         /\ heap # "live"
         /\ freeCount = (IF heap = "freed" THEN 1 ELSE 0)
         /\ faults = {}

\* setup failed after the stream reference was made
C6_Witness ==
    /\ SetupFailed
    /\ refNew.stream = 1
    /\ refDel.stream = 1
    /\ is.mid_read = MID_READ

\* C7: open_from_stream on a stream that reports zero bytes on its first read
\* ends by returning the zero handle.
C7_EmptyStreamReturnsZero ==
    (StreamHandedOver /\ Len(data) = 0 /\ Ended)
      => /\ pc = "returned"
         /\ ret = NULL

\* C8: no entry point returns with an error condition pending for the host.
C8_NothingPending ==
    pc = "returned" => ~exc

\* C9: release calls the engine's destroy entry point once, on the handle it
\* was given, when the handle is not zero, and calls nothing when it is zero.
C9_ReleaseOnce ==
    (pc = "returned" /\ call.name = "freeContext")
      => engineCalls = IF call.h = NULL THEN <<>>
                       ELSE <<ECall("whisper_free", call.h, NullStr, NoParams)>>

\* release returned from a handle the host held
C9_Witness ==
    /\ pc = "returned"
    /\ call.name = "freeContext"
    /\ call.h # NULL
    /\ call.h \notin live

\* C10: transcribe with a zero handle or a null sample buffer returns without
\* calling the engine, without acquiring the samples or the language string
\* and without changing the segments.
C10_TranscribeRejects ==
    [][(pc = "idle" /\ call'.name = "fullTranscribe"
          /\ (call'.h = NULL \/ call'.audio = NULL))
        => /\ pc' = "returned"
           /\ engineCalls' = <<>>
           /\ jni' = NoJni
           /\ segs' = segs
           /\ ~exc']_vars

\* transcribe returned from a null sample buffer and a handle with a segment
C10_Witness ==
    /\ pc = "returned"
    /\ call.name = "fullTranscribe"
    /\ call.h # NULL
    /\ call.audio = NULL
    /\ segs[call.h] = MaxSeg
    /\ engineCalls = <<>>

\* transcribe returned
TranscribeReturned == pc = "returned" /\ call.name = "fullTranscribe"

\* transcribe returned after it ran the engine
Transcribed == TranscribeReturned /\ RanFull(engineCalls)

\* the parameters whisper_full was called with
FullParams ==
    engineCalls[CHOOSE i \in DOMAIN engineCalls : engineCalls[i].fn = "whisper_full"].p

\* the names of the engine entry points called, in order
FnNames == [i \in DOMAIN engineCalls |-> engineCalls[i].fn]

\* C11: on every exit path of transcribe the sample array, if it was pinned,
\* was released once, in the mode that writes nothing back, and the language
\* string, if it was acquired, was released once; nothing else was released.
C11_TranscribeReleases ==
    TranscribeReturned
      => /\ jni.arrGet \in {0, 1}
         /\ jni.utfGet \in {0, 1}
         /\ jni.arrRel = jni.arrGet
         /\ jni.arrAbort = jni.arrRel
         /\ jni.utfRel = jni.utfGet
         /\ (jni.arrGet = 0 => jni.utfGet = 0)

\* transcribe returned from a failed engine run, the samples pinned, and a
\* language string whose characters the runtime did not deliver
C11_Witness ==
    /\ Transcribed
    /\ engineRet.val # 0
    /\ call.str = Str("en")
    /\ jni.arrGet = 1
    /\ jni.utfGet = 0

\* C12, as claimed: a language that is absent, empty or "auto" runs the engine
\* with auto-detect enabled; any other language runs it with auto-detect
\* disabled and that string as the language parameter.
C12_LanguageAsGiven ==
    Transcribed
      => IF call.str \in {NullStr, Str(""), Str("auto")}
         THEN FullParams.detect_language
         ELSE /\ ~FullParams.detect_language
              /\ FullParams.language = call.str

\* C12, amended: a language that is absent, empty or "auto", or whose
\* characters the runtime fails to deliver, runs the engine with auto-detect
\* enabled; any other language runs it with auto-detect disabled and that
\* string as the language parameter.
C12_LanguageWhenDelivered ==
    Transcribed
      => IF call.str \in {NullStr, Str(""), Str("auto")} \/ jni.utfGet = 0
         THEN FullParams.detect_language
         ELSE /\ ~FullParams.detect_language
              /\ FullParams.language = call.str

\* the engine ran with the language the host gave
C12_Witness ==
    /\ Transcribed
    /\ call.str = Str("en")
    /\ jni.utfGet = 1
    /\ FullParams.language = Str("en")
    /\ ~FullParams.detect_language

\* C13: the engine gets the thread count 1 for every thread count below 1 and
\* the host's thread count otherwise; the other parameters this layer sets do
\* not depend on the thread count.
C13_ThreadsCoerced ==
    Transcribed
      => /\ FullParams.n_threads = (IF call.nthreads < 1 THEN 1 ELSE call.nthreads)
         /\ FullParams.translate = call.translate
         /\ FullParams.no_context
         /\ ~FullParams.print_realtime
         /\ ~FullParams.print_progress
         /\ ~FullParams.print_timestamps
         /\ ~FullParams.print_special

\* the engine ran for a thread count of zero
C13_Witness ==
    /\ Transcribed
    /\ call.nthreads = 0
    /\ FullParams.n_threads = 1

\* C19: a transcribe call that reaches the engine resets the timings, then
\* runs the engine, then prints the timings if and only if the run returned
\* zero, all on the host's handle, and returns; it calls nothing after a failed
\* run.
C19_TimingsAroundRun ==
    (TranscribeReturned /\ engineCalls # <<>>)
      => /\ FnNames = <<"whisper_full_default_params", "whisper_reset_timings",
                        "whisper_full">>
                      \o (IF engineRet.val = 0 THEN <<"whisper_print_timings">>
                          ELSE <<>>)
         /\ \A i \in 2..Len(engineCalls) : engineCalls[i].h = call.h
         /\ ~exc

\* transcribe returned from an engine run that failed
C19_Witness ==
    /\ Transcribed
    /\ engineRet.val # 0
    /\ Len(engineCalls) = 3

\* the segment accessors
Accessors ==
    {"getTextSegmentCount", "getTextSegment", "getTextSegmentT0", "getTextSegmentT1"}

\* the engine accessor each of them reads
EngineAccessor ==
    [getTextSegmentCount |-> "whisper_full_n_segments",
     getTextSegment      |-> "whisper_full_get_segment_text",
     getTextSegmentT0    |-> "whisper_full_get_segment_t0",
     getTextSegmentT1    |-> "whisper_full_get_segment_t1"]

\* the UTF-8 bytes of UTF-16 code units (no surrogates)
RECURSIVE EncodeUTF8(_)
EncodeUTF8(u) ==
    IF u = <<>> THEN <<>>
    ELSE (IF u[1] < 128 THEN <<u[1]>>
          ELSE IF u[1] < 2048 THEN <<192 + (u[1] \div 64), 128 + (u[1] % 64)>>
          ELSE <<224 + (u[1] \div 4096), 128 + ((u[1] \div 64) % 64), 128 + (u[1] % 64)>>)
         \o EncodeUTF8(Tail(u))

\* C14: an accessor called with the zero handle returns its neutral value (0,
\* or the empty string) without calling the engine; called with another handle
\* it asks the engine once, for that handle and index, and returns the engine's
\* value: the count, the timestamp, or a string that holds the engine's text.
C14_AccessorsPassThrough ==
    (Ended /\ call.name \in Accessors)
      => /\ pc = "returned"
         /\ IF call.h = NULL
            THEN /\ engineCalls = <<>>
                 /\ IF call.name = "getTextSegment" THEN retStr = Str(<<>>) ELSE ret = 0
            ELSE /\ engineCalls = <<ECallAt(EngineAccessor[call.name], call.h,
                                           IF call.name = "getTextSegmentCount"
                                           THEN 0 ELSE call.index)>>
                 /\ IF call.name # "getTextSegment" THEN ret = engineRet.val
                    ELSE engineRet.text # NullStr
                           => /\ retStr # NullStr
                              /\ EncodeUTF8(retStr[1]) = engineRet.text[1]

C16_EnvOfCallingThread ==
    (cb.op # "none" /\ cb.used)
      => /\ cb.getEnv + cb.attach >= 1
         /\ cb.env # NULL
         /\ cb.env = cb.t

\* read() called the stream from a thread of the engine, after a load that a
\* host thread started
C16_Witness ==
    /\ cb.op = "read"
    /\ cb.used
    /\ cb.t \in Workers
    /\ cb.t # thr
    /\ rd.n > 0

\* C17: the resolver makes no query and no attach and fails when the struct
\* holds no runtime reference; otherwise it queries the thread's JNIEnv first
\* and attaches only when the thread is not attached; it never attaches an
\* attached thread; it fails when the attach fails and otherwise yields the
\* thread's JNIEnv.
C17_QueryThenAttach ==
    (cb.op # "none")
      => IF cb.jvm = NULL
         THEN cb.env = NULL /\ cb.getEnv = 0 /\ cb.attach = 0
         ELSE /\ cb.getEnv = 1
              /\ cb.attach = (IF cb.wasAtt THEN 0 ELSE 1)
              /\ cb.env = (IF cb.wasAtt \/ cb.attachOK THEN cb.t ELSE NULL)
              /\ (cb.env # NULL => cb.t \in attached)

\* a callback ran on a thread of the engine that an earlier callback had
\* attached: it asked for the JNIEnv and did not attach again
C17_Witness ==
    /\ cb.op # "none"
    /\ cb.t \in Workers
    /\ cb.wasAtt
    /\ cb.getEnv = 1
    /\ cb.attach = 0
    /\ cb.env = cb.t

\* C18: when the stream's read throws, read() clears the exception, marks the
\* source exhausted, returns zero bytes and copies nothing; the load then ends
\* by returning the zero handle, with no exception pending.
C18_ThrowEndsLoad ==
    (StreamHandedOver /\ rd.threw)
      => /\ rd.cleared
         /\ ~exc
         /\ is.eof = 1
         /\ rd.n = 0
         /\ rd.copied = 0
         /\ (Ended => pc = "returned" /\ ret = NULL)

\* C20: read() copies into the engine's buffer at most the number of bytes
\* the engine asked for, and at most the capacity of the transfer buffer,
\* whatever count the stream reports.
C20_CopyWithinRequest ==
    (loader = "is" /\ cb.op = "read")
      => rd.copied <= Min(rd.req, BufCap)

\* C21: whenever read() of the stream loader has returned zero bytes, the
\* end-of-data flag is set, so that is_eof() is true and the engine's loop
\* stops.
C21_ZeroReadSetsEof ==
    (loader = "is" /\ pc = "load" /\ cb.op = "read" /\ rd.n = 0)
      => is_eof(1, Res)

\* C22: the end-of-data flag of a load starts false and, once a read() has
\* set it, stays set through every later step of the load, later reads
\* included: is_eof() never goes from true back to false.
C22_EofMonotone ==
    [][/\ (pc = "idle" /\ pc' = "load" /\ loader' = "is") => ~is_eof(1, Res)'
       /\ (pc = "load" /\ loader = "is" /\ is_eof(1, Res)) => is_eof(1, Res)']_vars

\* a read() after the flag was set delivered bytes, and the flag is still set
C22_Witness ==
    /\ pc = "load"
    /\ loader = "is"
    /\ cb.op = "read"
    /\ rd.n > 0
    /\ is_eof(1, Res)

\* open_from_asset whose entry of the container was opened
AssetOpened == call.name = "initContextFromAsset" /\ loader = "asset"

\* C23: in open_from_asset, an entry that was opened is closed exactly once
\* by the end of the call, whether the engine produced a context or not, and
\* only by the loader's close(); when an argument is rejected or the entry
\* cannot be opened, nothing is opened or closed and the engine is not called.
C23_AssetClosedOnce ==
    call.name = "initContextFromAsset" =>
        /\ assetClosed = (IF loader = "asset" THEN closeCalls ELSE 0)
        /\ (loader = "asset") = (assetOpen = 1)
        /\ (AssetOpened /\ Ended) => (assetOpen = 1 /\ assetClosed = 1)
        /\ (~AssetOpened /\ Ended) =>
              (assetOpen = 0 /\ assetClosed = 0 /\ ~InitCalled /\ ret = NULL)

\* the entry was opened, the engine failed, and the entry was closed once
C23_Witness ==
    /\ AssetOpened
    /\ pc = "returned"
    /\ ret = NULL
    /\ assetOpen = 1
    /\ assetClosed = 1

\* the entry was opened, the engine made a context, and the entry was closed once
C23_WitnessContext ==
    /\ AssetOpened
    /\ pc = "returned"
    /\ ret # NULL
    /\ assetClosed = 1

\* the entry could not be opened, and the call returned
C23_WitnessNotOpened ==
    /\ call.name = "initContextFromAsset"
    /\ call.mgr # NULL
    /\ call.str = Str("en")
    /\ ~AssetOpened
    /\ pc = "returned"

====
